---------------------------- MODULE Spec2Model ----------------------------
(***************************************************************************)
(* A model of server.js: a static file server with a multipart upload      *)
(* endpoint.                                                               *)
(*                                                                         *)
(* Strings and buffers are sequences of tokens.  A token is a short byte   *)
(* string that the code never looks inside for the inputs modelled here    *)
(* ("/", "..", "%2e%2e", "name=", "file", CRLF, ...); TokLen gives the     *)
(* number of bytes each one stands for, so that byte counts (chunk.length, *)
(* slice(2, length - 2)) are those of the real buffers.                    *)
(*                                                                         *)
(*   "CRLF"   \r\n                 "CD"    Content-Disposition:            *)
(*   "FD"     (space)form-data     "SEMI"  ;(space)                        *)
(*   "name="  name="  (with the opening quote)                             *)
(*   "Q"      "       (a double quote)                                     *)
(*   "CT"     Content-Type: application/octet-stream                       *)
(*   "BLK"    a run of payload bytes long enough to bring a body to the    *)
(*            upload limit                                                 *)
(*   "~"      what is left of a token that slice() cut through             *)
(* The literal  ; filename="  of the disposition pattern is the three      *)
(* tokens "SEMI", "file", "name=": the word "file" followed by  name="  .  *)
(***************************************************************************)
EXTENDS Integers, Sequences, FiniteSets, TLC

VARIABLES files, now, crashed, req

vars == <<files, now, crashed, req>>

----------------------------------------------------------------------------
(* Bounds of the model *)

\* the largest number of data events one request body is delivered in
MaxChunks == 2

\* the largest value Date.now() returns
MaxClock == 1

----------------------------------------------------------------------------
(* Program constants, server.js:6-10 *)

MAX_UPLOAD_BYTES == 10485760

PUBLIC_DIR == <<"/", "srv", "/", "public">>

UPLOAD_DIR == <<"/", "srv", "/", "uploads">>

ALLOWED_EXTENSIONS ==
    {<<".png">>, <<".jpg">>, <<".jpeg">>, <<".gif">>, <<".pdf">>, <<".txt">>}

sep == "/"

----------------------------------------------------------------------------
(* Sequences of tokens *)

Min(S) == CHOOSE x \in S : \A y \in S : x <= y

Max(S) == CHOOSE x \in S : \A y \in S : x >= y

\* s.startsWith(p)
StartsWith(s, p) ==
    /\ Len(p) <= Len(s)
    /\ SubSeq(s, 1, Len(p)) = p

\* s.slice(i) with a 0-based i, i.e. s without its first i tokens
Drop(s, i) == SubSeq(s, i + 1, Len(s))

\* buffer.indexOf(separator, start), 1-based; 0 stands for -1
IndexOf(buffer, separator, start) ==
    LET hits == {i \in start .. (Len(buffer) - Len(separator) + 1) :
                    SubSeq(buffer, i, i + Len(separator) - 1) = separator}
    IN  IF hits = {} THEN 0 ELSE Min(hits)

\* s.split(t)[0]: the part of s before the first token t
BeforeFirst(s, t) ==
    LET i == IndexOf(s, <<t>>, 1)
    IN  IF i = 0 THEN s ELSE SubSeq(s, 1, i - 1)

RECURSIVE Concat(_)
Concat(ss) == IF ss = <<>> THEN <<>> ELSE Head(ss) \o Concat(Tail(ss))

----------------------------------------------------------------------------
(* The path primitives safeJoin is built on (Node's posix path module and  *)
(* decodeURIComponent), as they act on token sequences.  A path segment is *)
(* the token sequence between two "/" tokens; "." and ".." are tokens of   *)
(* their own and no modelled path puts two dot tokens side by side.        *)

\* the tokens a percent-escape decodes to
DecodeTok(t) ==
    CASE t = "%2e%2e" -> <<"..">>
      [] t = "%2F"    -> <<"/">>
      [] t = "%23"    -> <<"#">>
      [] t = "%3F"    -> <<"?">>
      [] t = "%25"    -> <<"%">>
      [] OTHER        -> <<t>>

\* decodeURIComponent(s): a "%" that starts no escape makes it throw URIError
RECURSIVE DecodeAll(_)
DecodeAll(s) == IF s = <<>> THEN <<>> ELSE DecodeTok(Head(s)) \o DecodeAll(Tail(s))

decodeURIComponent(s) ==
    IF \E i \in 1 .. Len(s) : s[i] = "%"
    THEN [ok |-> FALSE, val |-> <<>>]
    ELSE [ok |-> TRUE, val |-> DecodeAll(s)]

\* s.replace(/^\/+/, '')
RECURSIVE StripLeadingSlashes(_)
StripLeadingSlashes(s) ==
    IF s # <<>> /\ Head(s) = sep THEN StripLeadingSlashes(Tail(s)) ELSE s

\* the segments of a path: what lies between its separators
RECURSIVE Segments(_)
Segments(s) ==
    LET i == IndexOf(s, <<sep>>, 1)
    IN  IF i = 0 THEN <<s>>
        ELSE <<SubSeq(s, 1, i - 1)>> \o Segments(Drop(s, i))

\* normalizeString of Node's path module: "." and empty segments go, ".."
\* removes the segment before it, and is kept only where the path is relative
RECURSIVE NormalizeSegs(_, _, _)
NormalizeSegs(segs, acc, allowAboveRoot) ==
    IF segs = <<>> THEN acc
    ELSE LET s == Head(segs)
             acc2 ==
                 IF s = <<>> \/ s = <<".">> THEN acc
                 ELSE IF s = <<"..">>
                      THEN IF acc # <<>> /\ acc[Len(acc)] # <<"..">>
                           THEN SubSeq(acc, 1, Len(acc) - 1)
                           ELSE IF allowAboveRoot THEN Append(acc, s) ELSE acc
                      ELSE Append(acc, s)
         IN  NormalizeSegs(Tail(segs), acc2, allowAboveRoot)

\* segs.join('/')
RECURSIVE JoinSegs(_)
JoinSegs(segs) ==
    IF segs = <<>> THEN <<>>
    ELSE IF Len(segs) = 1 THEN Head(segs)
         ELSE Head(segs) \o <<sep>> \o JoinSegs(Tail(segs))

\* path.normalize(p) for a non-empty p, from its normalized segments: a
\* trailing separator is kept
NormalizeWith(p, body) ==
    IF body = <<>>
    THEN IF Head(p) = sep THEN <<sep>>
         ELSE IF p[Len(p)] = sep THEN <<".", sep>> ELSE <<".">>
    ELSE (IF Head(p) = sep THEN <<sep>> ELSE <<>>) \o body
         \o (IF p[Len(p)] = sep THEN <<sep>> ELSE <<>>)

PathNormalize(p) ==
    NormalizeWith(p, JoinSegs(NormalizeSegs(Segments(p), <<>>, Head(p) # sep)))

\* path.join(a, b): empty arguments are left out
PathJoin(a, b) ==
    IF a = <<>> /\ b = <<>> THEN <<".">>
    ELSE PathNormalize(IF b = <<>> THEN a
                       ELSE IF a = <<>> THEN b ELSE a \o <<sep>> \o b)

\* the last two lines of safeJoin: absPath, if it starts with safeRoot
SafeJoinCheck(baseDir, absPath) ==
    IF ~StartsWith(absPath, baseDir \o <<sep>>)
    THEN [kind |-> "null", path |-> <<>>]
    ELSE [kind |-> "path", path |-> absPath]

\* safeJoin once urlPath.split('?')[0] is decoded
SafeJoinDecoded(baseDir, decoded) ==
    IF ~decoded.ok THEN [kind |-> "throw", path |-> <<>>]
    ELSE SafeJoinCheck(baseDir,
             PathJoin(baseDir, StripLeadingSlashes(BeforeFirst(decoded.val, "#"))))

\* safeJoin(baseDir, urlPath): kind is "path" (absPath returned), "null" or
\* "throw" (decodeURIComponent threw and nothing is returned)
safeJoin(baseDir, urlPath) ==
    SafeJoinDecoded(baseDir, decodeURIComponent(BeforeFirst(urlPath, "?")))

----------------------------------------------------------------------------
(* Buffers: byte lengths and the multipart split, server.js:42-61 *)

\* the number of bytes of every token but "BLK"
TokLen0(t) ==
    CASE t = "CRLF"   -> 2
      [] t = "--"     -> 2
      [] t = "XYZ"    -> 3
      [] t = "ABC"    -> 3
      [] t = "CD"     -> 20
      [] t = "FD"     -> 10
      [] t = "SEMI"   -> 2
      [] t = "name="  -> 6
      [] t = "file"   -> 4
      [] t = "field"  -> 5
      [] t = "report" -> 6
      [] t = "dir"    -> 3
      [] t = ".."     -> 2
      [] t = "CT"     -> 38
      [] t = "%PDF"   -> 4
      [] t \in {".pdf", ".PDF", ".exe", ".txt", ".png", ".jpg", ".gif"} -> 4
      [] t = ".jpeg"  -> 5
      [] OTHER        -> 1

RECURSIVE Bytes0(_)
Bytes0(s) == IF s = <<>> THEN 0 ELSE TokLen0(Head(s)) + Bytes0(Tail(s))

\* a Content-Disposition header line:  form-data; name="N"  and, when a file
\* name is given,  ; filename="F"
Disposition(name, filename) ==
    <<"CD", "FD", "SEMI", "name=">> \o name \o <<"Q">>
    \o (IF filename = <<>> THEN <<>>
        ELSE <<"SEMI", "file", "name=">> \o filename \o <<"Q">>)

\* a part: its header block, the empty line, its body
Part(headers, data) == headers \o <<"CRLF", "CRLF">> \o data

\* a multipart body with boundary XYZ: each part between delimiter lines,
\* then the closing delimiter
RECURSIVE Framed(_)
Framed(parts) ==
    IF parts = <<>> THEN <<>>
    ELSE <<"--", "XYZ", "CRLF">> \o Head(parts) \o <<"CRLF">> \o Framed(Tail(parts))

Body(parts) == Framed(parts) \o <<"--", "XYZ", "--", "CRLF">>

ReportPdf == <<"report", ".pdf">>

\* the bytes of the one-part upload of report.pdf around its payload
FrameBytes == Bytes0(Body(<<Part(Disposition(<<"file">>, ReportPdf), <<>>)>>))

\* the number of bytes a token stands for; "BLK" is the payload that, with
\* two more bytes, brings the upload of report.pdf to MAX_UPLOAD_BYTES
TokLen(t) ==
    IF t = "BLK" THEN MAX_UPLOAD_BYTES - FrameBytes - 2 ELSE TokLen0(t)

\* buffer.length
RECURSIVE Bytes(_)
Bytes(s) == IF s = <<>> THEN 0 ELSE TokLen(Head(s)) + Bytes(Tail(s))

\* part.slice(2, part.length - 2) of a part of total bytes: the bytes from
\* offset 2 up to the last two.  A token the cut goes through leaves a
\* remainder, "~".
SliceOf(part, total) ==
    LET first(i) == Bytes(SubSeq(part, 1, i - 1))
        kept == {i \in 1 .. Len(part) :
                    /\ first(i + 1) > 2
                    /\ first(i) < total - 2
                    /\ total > 4}
    IN  [k \in 1 .. Cardinality(kept) |->
            IF first(Min(kept) + k - 1) >= 2 /\ first(Min(kept) + k) <= total - 2
            THEN part[Min(kept) + k - 1] ELSE "~"]

SliceEnds(part) == SliceOf(part, Bytes(part))

\* the loop of splitBuffer, from the 1-based position start on
RECURSIVE SplitFrom(_, _, _)
SplitFrom(buffer, separator, start) ==
    LET index == IndexOf(buffer, separator, start)
    IN  IF index = 0 THEN <<SubSeq(buffer, start, Len(buffer))>>
        ELSE <<SubSeq(buffer, start, index - 1)>>
             \o SplitFrom(buffer, separator, index + Len(separator))

splitBuffer(buffer, separator) == SplitFrom(buffer, separator, 1)

RECURSIVE MapSliceEnds(_)
MapSliceEnds(chunks) ==
    IF chunks = <<>> THEN <<>>
    ELSE <<SliceEnds(Head(chunks))>> \o MapSliceEnds(Tail(chunks))

NonEmpty(part) == Bytes(part) > 0

\* parseMultipart without its filter
ParseMultipartUnfiltered(buffer, boundary) ==
    MapSliceEnds(splitBuffer(buffer, <<"--">> \o boundary))

parseMultipart(buffer, boundary) ==
    LET boundaryBuffer == <<"--">> \o boundary
        chunks == splitBuffer(buffer, boundaryBuffer)
    IN  SelectSeq(MapSliceEnds(chunks), NonEmpty)

----------------------------------------------------------------------------
(* What the end handler does with one part, server.js:93-110 *)

\* the first index after j that holds a quote, 0 when there is none
NextQuote(text, j) ==
    IF \E q \in (j + 1) .. Len(text) : text[q] = "Q"
    THEN Min({q \in (j + 1) .. Len(text) : text[q] = "Q"})
    ELSE 0

NoMatch == [matched |-> FALSE, name |-> <<>>, hasFile |-> FALSE, filename |-> <<>>]

\* headerText.match(/content-disposition:.*name="([^"]+)"(?:; filename="([^"]+)")?/i)
\* from a start i of "content-disposition:".  ".*" is greedy and stays on the
\* line, so the match takes the LAST  name="  of the line that a non-empty
\* quoted value follows (0: there is none).
NameStarts(text, i) ==
    {j \in (i + 1) .. Len(text) :
        /\ text[j] = "name="
        /\ \A k \in (i + 1) .. (j - 1) : text[k] # "CRLF"
        /\ NextQuote(text, j) >= j + 2}

LastName(text, i) ==
    IF NameStarts(text, i) = {} THEN 0 ELSE Max(NameStarts(text, i))

\* the groups, with the first value between j and the quote at q; the
\* optional group is tried right after q and its value would end at q2
Groups(text, j, q, q2) ==
    IF /\ q + 3 <= Len(text)
       /\ SubSeq(text, q + 1, q + 3) = <<"SEMI", "file", "name=">>
       /\ q2 >= q + 5
    THEN [matched |-> TRUE, name |-> SubSeq(text, j + 1, q - 1),
          hasFile |-> TRUE, filename |-> SubSeq(text, q + 4, q2 - 1)]
    ELSE [matched |-> TRUE, name |-> SubSeq(text, j + 1, q - 1),
          hasFile |-> FALSE, filename |-> <<>>]

GroupsAt(text, j, q) == Groups(text, j, q, NextQuote(text, q + 3))

MatchAt(text, i) ==
    IF LastName(text, i) = 0 THEN NoMatch
    ELSE GroupsAt(text, LastName(text, i), NextQuote(text, LastName(text, i)))

\* the match as a whole: the leftmost start that matches
MatchStarts(headerText) ==
    {i \in 1 .. Len(headerText) :
        headerText[i] = "CD" /\ LastName(headerText, i) # 0}

DispositionMatch(headerText) ==
    IF MatchStarts(headerText) = {} THEN NoMatch
    ELSE MatchAt(headerText, Min(MatchStarts(headerText)))

\* path.basename(p): trailing separators go, then what follows the last one
RECURSIVE StripTrailingSlashes(_)
StripTrailingSlashes(p) ==
    IF p # <<>> /\ p[Len(p)] = sep
    THEN StripTrailingSlashes(SubSeq(p, 1, Len(p) - 1)) ELSE p

LastSegment(q) ==
    IF \E i \in 1 .. Len(q) : q[i] = sep
    THEN Drop(q, Max({i \in 1 .. Len(q) : q[i] = sep}))
    ELSE q

\* the file name as the client sent it, directories and all
PathBasenameKept(p) == p

PathBasename(p) == LastSegment(StripTrailingSlashes(p))

\* the tokens that begin with a dot and hold no other
DotToks == {".pdf", ".PDF", ".exe", ".txt", ".png", ".jpg", ".jpeg", ".gif", "."}

\* path.extname(name): from the last dot on, unless the name starts with it
PathExtname(name) ==
    LET dots == {i \in 1 .. Len(name) : name[i] \in DotToks}
    IN  IF dots = {} \/ Max(dots) = 1 THEN <<>> ELSE Drop(name, Max(dots) - 1)

\* s.toLowerCase()
LowerTok(t) == IF t = ".PDF" THEN ".pdf" ELSE t

ToLowerCase(s) == [i \in 1 .. Len(s) |-> LowerTok(s[i])]

\* encodeURIComponent(s)
EncodeTok(t) ==
    CASE t = "#" -> "%23"
      [] t = "?" -> "%3F"
      [] t = "/" -> "%2F"
      [] t = "%" -> "%25"
      [] OTHER   -> t

encodeURIComponent(s) == [i \in 1 .. Len(s) |-> EncodeTok(s[i])]

Skip == [action |-> "continue", safeName |-> <<>>, data |-> <<>>]

\* one turn of the loop over the parts: "continue" (the part is skipped),
\* "reject" (415) or "save" (the part is written under safeName).
\* From safeName on:
PartNamed(safeName, data) ==
    IF ToLowerCase(PathExtname(safeName)) \notin ALLOWED_EXTENSIONS
    THEN [action |-> "reject", safeName |-> safeName, data |-> <<>>]
    ELSE [action |-> "save", safeName |-> safeName, data |-> data]

\* the test of the field name and the file name with "and" for "or"
PartMatchedAnd(dispositionMatch, data) ==
    IF ~dispositionMatch.matched THEN Skip
    ELSE IF dispositionMatch.name # <<"file">> /\ ~dispositionMatch.hasFile THEN Skip
    ELSE PartNamed(PathBasename(dispositionMatch.filename), data)

\* from dispositionMatch on:
PartMatched(dispositionMatch, data) ==
    IF ~dispositionMatch.matched THEN Skip
    ELSE IF dispositionMatch.name # <<"file">> \/ ~dispositionMatch.hasFile THEN Skip
    ELSE PartNamed(PathBasename(dispositionMatch.filename), data)

\* from headerEnd on (1-based, 0 for -1):
PartAt(part, headerEnd) ==
    IF headerEnd = 0 THEN Skip
    ELSE PartMatched(DispositionMatch(SubSeq(part, 1, headerEnd - 1)),
                     Drop(part, headerEnd + 1))

PartStep(part) == PartAt(part, IndexOf(part, <<"CRLF", "CRLF">>, 1))

\* the loop: the first part that is not skipped ends it
RECURSIVE PartLoop(_)
LoopOn(step, others) ==
    IF step.action = "continue" THEN PartLoop(others) ELSE step

PartLoop(parts) ==
    IF parts = <<>> THEN Skip ELSE LoopOn(PartStep(Head(parts)), Tail(parts))

\* `${Date.now()}-${safeName}`
FinalName(t, safeName) == <<ToString(t), "-">> \o safeName

\* the upload response's link
Link(savedFile) == <<"/", "uploads", "/">> \o encodeURIComponent(savedFile)

----------------------------------------------------------------------------
(* Responses, server.js:14-17 *)

Response(statusCode, contentType, body) ==
    [status |-> statusCode, ctype |-> contentType, body |-> body]

\* mime.lookup(filePath) || 'application/octet-stream', for the names modelled
MimeLookup(filePath) ==
    LET last == filePath[Len(filePath)]
    IN  CASE last = "index.html" -> "text/html"
          [] last \in {"a.txt", "old.txt", "x.txt", "locked.txt", ".txt"} -> "text/plain"
          [] last \in {".pdf", ".PDF"} -> "application/pdf"
          [] OTHER -> "application/octet-stream"

----------------------------------------------------------------------------
(* The file system the server runs on *)

Dirs ==
    {<<"/">>, <<"/", "srv">>, PUBLIC_DIR, UPLOAD_DIR,
     PUBLIC_DIR \o <<"/", "sub">>, <<"/", "srv", "/", "public", "2">>, <<"/", "etc">>}

\* files that exist and cannot be read by the server's user
Unreadable == {PUBLIC_DIR \o <<"/", "locked.txt">>}

InitFiles ==
    (PUBLIC_DIR \o <<"/", "index.html">> :> <<"index-page">>)
    @@ (PUBLIC_DIR \o <<"/", "a.txt">> :> <<"hello">>)
    @@ (PUBLIC_DIR \o <<"/", "locked.txt">> :> <<"locked">>)
    @@ (UPLOAD_DIR \o <<"/", "old.txt">> :> <<"old">>)
    @@ (<<"/", "srv", "/", "public", "2", "/", "x.txt">> :> <<"secret">>)
    @@ (<<"/", "etc", "/", "passwd">> :> <<"root">>)

\* what fs.readFile(filePath) hands its callback: err.code ("" for none) and
\* the content
ReadBare(fs, filePath, bare) ==
    IF bare \in Dirs \/ bare = <<>> THEN [err |-> "EISDIR", content |-> <<>>]
    ELSE IF bare \in DOMAIN fs
         THEN IF bare # filePath THEN [err |-> "ENOTDIR", content |-> <<>>]
              ELSE IF bare \in Unreadable THEN [err |-> "EACCES", content |-> <<>>]
              ELSE [err |-> "", content |-> fs[bare]]
    ELSE IF \E i \in 1 .. (Len(bare) - 1) : SubSeq(bare, 1, i) \in DOMAIN fs
         THEN [err |-> "ENOTDIR", content |-> <<>>]
         ELSE [err |-> "ENOENT", content |-> <<>>]

ReadFile(fs, filePath) == ReadBare(fs, filePath, StripTrailingSlashes(filePath))

\* the callback with every failure reported as a missing file
ServeFileResponseNotFound(filePath, err, content) ==
    IF err # ""
    THEN Response(404, "text/html", <<"<h1>404 - File Not Found</h1>">>)
    ELSE Response(200, MimeLookup(filePath), content)

\* the callback of serveFile
ServeFileResponse(filePath, err, content) ==
    IF err # ""
    THEN IF err = "ENOENT"
         THEN Response(404, "text/html", <<"<h1>404 - File Not Found</h1>">>)
         ELSE Response(500, "text/plain", <<"Server Error: ", err>>)
    ELSE Response(200, MimeLookup(filePath), content)

----------------------------------------------------------------------------
(* The requests the model sends *)

Methods == {"GET", "HEAD", "POST", "PUT"}

UploadUrl == <<"/", "upload">>

Urls ==
    {<<"/">>,
     <<"/", "index.html">>,
     <<"/", "a.txt">>,
     <<"/", "missing.html">>,
     <<"/", "locked.txt">>,
     <<"/", "sub", "/">>,
     <<"/", ".", "/">>,
     <<"/", "/", "a.txt">>,
     <<"/", "sub", "/", "..", "/", "a.txt">>,
     <<"/", "a.txt", "?", "q">>,
     <<"/", "a.txt", "#", "q">>,
     <<"/", "?", "q">>,
     <<"/", "..", "/", "..", "/", "etc", "/", "passwd">>,
     <<"/", "%2e%2e", "/", "%2e%2e", "/", "etc", "/", "passwd">>,
     <<"/", "..", "%2F", "uploads", "/", "old.txt">>,
     <<"/", "..", "/", "public", "2", "/", "x.txt">>,
     <<"/", "%">>,
     UploadUrl,
     <<"/", "upload", "?", "q">>,
     <<"/", "uploads">>,
     <<"/", "uploads", "/">>,
     <<"/", "uploads", "/", "old.txt">>,
     <<"/", "uploads", "/", "missing.html">>,
     <<"/", "uploads", "/", "..", "/", "public", "/", "a.txt">>,
     <<"/", "uploads", "/", "%">>}

CtMultipart == <<"multipart/form-data", "SEMI", "boundary=", "XYZ">>

\* the values of the Content-Type header; <<>> is a request without one
ContentTypes ==
    {CtMultipart,
     <<"multipart/form-data", "SEMI", "boundary=", "ABC">>,
     <<"multipart/form-data", "SEMI", "boundary=">>,
     <<"multipart/form-data">>,
     <<"text/plain", "SEMI", "boundary=", "XYZ">>,
     <<"application/json">>,
     <<>>}

\* the field names of the parts
FieldNames == {<<"file">>, <<"field">>}

\* the upload of report.pdf with the given payload
ReportUpload(data) == Body(<<Part(Disposition(<<"file">>, ReportPdf), data)>>)

ExePart == Part(Disposition(<<"file">>, <<"report", ".exe">>), <<"x">>)

PdfPart == Part(Disposition(<<"file">>, ReportPdf), <<"%PDF">>)

FieldPart == Part(Disposition(<<"field">>, <<>>), <<"x">>)

\* payloads that hold CR LF and "--", and the boundary token itself
BinaryData == <<"x", "CRLF", "--", "x">>

TokenData == <<"x", "x", "x", "--", "XYZ", "x", "x">>

UploadBodies ==
    {<<>>,
     Body(<<PdfPart>>),
     Body(<<Part(Disposition(<<"file">>, <<"report", ".PDF">>), <<"%PDF">>)>>),
     Body(<<Part(Disposition(<<"file">>, ReportPdf) \o <<"CRLF", "CT">>, <<"%PDF">>)>>),
     Body(<<ExePart>>),
     Body(<<FieldPart>>),
     Body(<<Part(Disposition(<<"file">>, <<>>), <<"x">>)>>),
     Body(<<Part(Disposition(<<"field">>, ReportPdf), <<"x">>)>>),
     Body(<<Part(<<"CT">>, <<"x">>)>>),
     Body(<<Disposition(<<"file">>, ReportPdf)>>),
     Body(<<FieldPart, PdfPart>>),
     Body(<<ExePart, PdfPart>>),
     Body(<<PdfPart, ExePart>>),
     ReportUpload(BinaryData),
     ReportUpload(TokenData),
     ReportUpload(<<"BLK", "x">>),
     ReportUpload(<<"BLK", "x", "x">>),
     ReportUpload(<<"BLK", "x", "x", "x">>),
     ReportUpload(<<"BLK", "CT">>)}

----------------------------------------------------------------------------
(* State *)

NoResult == [kind |-> "none", path |-> <<>>]

\* a connection on which no request has arrived yet
IdleReq ==
    [phase |-> "idle", method |-> "", url |-> <<>>, ctype |-> <<>>,
     body |-> <<>>, rest |-> <<>>, branch |-> "", resolved |-> NoResult,
     filePath |-> <<>>, readErr |-> "", readContent |-> <<>>,
     boundary |-> <<>>, listening |-> FALSE, totalBytes |-> 0, chunks |-> <<>>,
     parsed |-> FALSE, responses |-> <<>>, reads |-> <<>>, wrote |-> {},
     fileNameRaw |-> <<>>]

Reqs == {"r1", "r2"}

TypeOK ==
    /\ now \in 0 .. MaxClock
    /\ crashed \in BOOLEAN
    /\ DOMAIN req = Reqs
    /\ \A r \in Reqs :
          req[r].phase \in {"idle", "body", "reading", "done", "destroyed", "thrown"}

Init ==
    /\ files = InitFiles
    /\ now = 0
    /\ crashed = FALSE
    /\ req = [r \in Reqs |-> IdleReq]

----------------------------------------------------------------------------
(* The request handler, server.js:129-151, with what it calls *)

\* the branches with the method test put first
RouteMethodFirst(method, url) ==
    IF method # "GET" /\ method # "HEAD" THEN "405"
    ELSE IF method = "POST" /\ url = UploadUrl THEN "upload"
    ELSE IF url = <<"/">> \/ url = <<"/", "index.html">> THEN "index"
    ELSE IF StartsWith(url, <<"/", "uploads", "/">>) THEN "uploads"
    ELSE "public"

\* which branch of the handler a request takes
Route(method, url) ==
    IF method = "POST" /\ url = UploadUrl THEN "upload"
    ELSE IF method # "GET" /\ method # "HEAD" THEN "405"
    ELSE IF url = <<"/">> \/ url = <<"/", "index.html">> THEN "index"
    ELSE IF StartsWith(url, <<"/", "uploads", "/">>) THEN "uploads"
    ELSE "public"

\* contentType.match(/boundary=(.+)$/): everything after the first
\* "boundary=" that something follows
BoundaryMatch(contentType) ==
    LET i == IndexOf(contentType, <<"boundary=">>, 1)
    IN  IF i = 0 \/ i = Len(contentType)
        THEN [matched |-> FALSE, boundary |-> <<>>]
        ELSE [matched |-> TRUE, boundary |-> Drop(contentType, i)]

\* handleUpload without its test for multipart/form-data
HandleUploadAnyEncoding(q) ==
    IF ~BoundaryMatch(q.ctype).matched
    THEN [q EXCEPT !.phase = "done",
                   !.responses = Append(@, Response(400, "text/plain",
                                            <<"Missing boundary">>))]
    ELSE [q EXCEPT !.phase = "body", !.boundary = BoundaryMatch(q.ctype).boundary,
                   !.listening = TRUE, !.totalBytes = 0, !.chunks = <<>>]

\* handleUpload up to the point where it has attached its listeners
HandleUpload(q) ==
    LET boundaryMatch == BoundaryMatch(q.ctype)
    IN  IF ~(\E i \in 1 .. Len(q.ctype) : q.ctype[i] = "multipart/form-data")
        THEN [q EXCEPT !.phase = "done",
                       !.responses = Append(@, Response(400, "text/plain",
                                                <<"Invalid form encoding">>))]
        ELSE IF ~boundaryMatch.matched
        THEN [q EXCEPT !.phase = "done",
                       !.responses = Append(@, Response(400, "text/plain",
                                                <<"Missing boundary">>))]
        ELSE [q EXCEPT !.phase = "body", !.boundary = boundaryMatch.boundary,
                       !.listening = TRUE, !.totalBytes = 0, !.chunks = <<>>]

\* serveFile up to the call of fs.readFile
ServeFile(q, filePath) ==
    [q EXCEPT !.phase = "reading", !.filePath = filePath,
              !.reads = Append(@, filePath)]

\* the two branches that resolve the URL under a root, once safeJoin is back
Resolved(q, joined) ==
    IF joined.kind = "throw" THEN [q EXCEPT !.resolved = joined, !.phase = "thrown"]
    ELSE IF joined.kind = "null"
    THEN [q EXCEPT !.resolved = joined, !.phase = "done",
                   !.responses = Append(@, Response(403, "text/plain", <<"Forbidden">>))]
    ELSE ServeFile([q EXCEPT !.resolved = joined], joined.path)

ServeUnder(q, baseDir, urlPath) == Resolved(q, safeJoin(baseDir, urlPath))

\* the handler on a fresh request q
Handle(q) ==
    IF q.branch = "upload" THEN HandleUpload(q)
    ELSE IF q.branch = "405"
    THEN [q EXCEPT !.phase = "done",
                   !.responses = Append(@, Response(405, "text/plain",
                                            <<"Method Not Allowed">>))]
    ELSE IF q.branch = "index"
    THEN ServeFile(q, PathJoin(PUBLIC_DIR, <<"index.html">>))
    ELSE IF q.branch = "uploads"
    THEN ServeUnder(q, UPLOAD_DIR, Drop(q.url, 3))
    ELSE ServeUnder(q, PUBLIC_DIR, q.url)

\* the links to the files uploads have stored
StoredLinks(fs) ==
    {Link(Drop(p, Len(UPLOAD_DIR) + 1)) :
        p \in {f \in DOMAIN fs \ DOMAIN InitFiles : StartsWith(f, UPLOAD_DIR \o <<sep>>)}}

\* A request arrives on connection r.  A POST to /upload carries a content
\* type and a body; a GET may ask for the link of a stored upload.
Settle(r, q) ==
    /\ req' = [req EXCEPT ![r] = q]
    /\ crashed' = (q.phase = "thrown")

Arrive(r, method, url, ctype, body) ==
    Settle(r, Handle([IdleReq EXCEPT !.method = method, !.url = url,
                                     !.ctype = ctype, !.body = body, !.rest = body,
                                     !.branch = Route(method, url)]))

Request(r) ==
    /\ ~crashed
    /\ req[r].phase = "idle"
    /\ \E method \in Methods, url \in Urls \cup StoredLinks(files) :
          IF Route(method, url) = "upload"
          THEN \E ctype \in ContentTypes, body \in UploadBodies :
                  Arrive(r, method, url, ctype, body)
          ELSE Arrive(r, method, url, <<>>, <<>>)
    /\ UNCHANGED <<files, now>>

\* The exchange on connection r is over (answered, or torn down by
\* req.destroy()): the connection is free for the next request.
Close(r) ==
    /\ ~crashed
    /\ req[r].phase \in {"done", "destroyed"}
    /\ req' = [req EXCEPT ![r] = IdleReq]
    /\ UNCHANGED <<files, now, crashed>>

----------------------------------------------------------------------------
(* The listeners of handleUpload, server.js:78-126 *)

\* the guard with the limit itself refused
TooLargeOrEqual(totalBytes) == totalBytes >= MAX_UPLOAD_BYTES

\* the guard of the data listener
TooLarge(totalBytes) == totalBytes > MAX_UPLOAD_BYTES

\* the data listener without its guard: every chunk is collected
DataHandlerUnguarded(q, chunk) ==
    [q EXCEPT !.totalBytes = @ + Bytes(chunk), !.chunks = Append(@, chunk)]

\* the data listener on request q, given the chunk
DataHandler(q, chunk) ==
    IF TooLarge(q.totalBytes + Bytes(chunk))
    THEN [q EXCEPT !.totalBytes = @ + Bytes(chunk), !.phase = "destroyed",
                   !.responses = Append(@, Response(413, "text/plain",
                                            <<"File too large">>))]
    ELSE [q EXCEPT !.totalBytes = @ + Bytes(chunk), !.chunks = Append(@, chunk)]

\* the chunks delivered so far
Delivered(q) == Len(q.chunks) + (IF q.phase = "destroyed" THEN 1 ELSE 0)

\* req.on('data'): the next chunk of the body arrives.  The body comes in at
\* most MaxChunks chunks, cut at any token.
OnData(r) ==
    /\ ~crashed
    /\ req[r].phase = "body"
    /\ req[r].rest # <<>>
    /\ \E k \in 1 .. Len(req[r].rest) :
          /\ Delivered(req[r]) + 1 >= MaxChunks => k = Len(req[r].rest)
          /\ req' = [req EXCEPT ![r] =
                        DataHandler([req[r] EXCEPT !.rest = Drop(@, k)],
                                    SubSeq(req[r].rest, 1, k))]
    /\ UNCHANGED <<files, now, crashed>>

\* the end listener on request q: the request afterwards and the file it
\* writes (none: an empty path).  With the file stored:
EndSaved(q, data, finalName, targetPath) ==
    [q |-> [q EXCEPT !.phase = "done", !.parsed = TRUE,
                     !.wrote = @ \cup {targetPath},
                     !.responses = Append(@, Response(200, "text/html", Link(finalName)))],
     path |-> targetPath, data |-> data]

EndSave(q, data, finalName) ==
    EndSaved(q, data, finalName, PathJoin(UPLOAD_DIR, finalName))

\* without one:
EndSend(q, statusCode, body) ==
    [q |-> [q EXCEPT !.phase = "done", !.parsed = TRUE,
                     !.responses = Append(@, Response(statusCode, "text/plain", body))],
     path |-> <<>>, data |-> <<>>]

\* from the end of the loop over the parts on, at time t:
EndWith(q, t, step) ==
    IF step.action = "reject" THEN EndSend(q, 415, <<"File type not allowed">>)
    ELSE IF step.action = "save" THEN EndSave(q, step.data, FinalName(t, step.safeName))
    ELSE EndSend(q, 400, <<"No file uploaded">>)

EndHandler(q, t) ==
    EndWith(q, t, PartLoop(parseMultipart(Concat(q.chunks), q.boundary)))

Finish(r, out, t) ==
    /\ req' = [req EXCEPT ![r] = out.q]
    /\ files' = IF out.path = <<>> THEN files ELSE (out.path :> out.data) @@ files
    /\ now' = IF out.path = <<>> THEN now ELSE t

\* req.on('end'): the whole body has arrived.  Date.now() returns t, not
\* less than the time it returned last.
OnEnd(r) ==
    /\ ~crashed
    /\ req[r].phase = "body"
    /\ req[r].rest = <<>>
    /\ \E t \in now .. MaxClock : Finish(r, EndHandler(req[r], t), t)
    /\ UNCHANGED crashed

\* req.on('error'): the request stream fails before its end
OnError(r) ==
    /\ ~crashed
    /\ req[r].phase = "body"
    /\ req' = [req EXCEPT ![r].phase = "done",
                          ![r].responses = Append(@, Response(500, "text/plain",
                                                      <<"Upload failed">>))]
    /\ UNCHANGED <<files, now, crashed>>

\* the callback of fs.readFile in serveFile
Served(q, got) ==
    [q EXCEPT !.phase = "done", !.readErr = got.err, !.readContent = got.content,
              !.responses = Append(@, ServeFileResponse(q.filePath, got.err, got.content))]

ReadFileCallback(r) ==
    /\ ~crashed
    /\ req[r].phase = "reading"
    /\ req' = [req EXCEPT ![r] = Served(req[r], ReadFile(files, req[r].filePath))]
    /\ UNCHANGED <<files, now, crashed>>

\* The loop body of the end listener from line 101 on, on a part whose
\* disposition gave this field name and file name, then the rest of the
\* listener: the request afterwards and the file written.
ValidateAndWrite(q, fieldName, fileNameRaw, data, t) ==
    EndWith([q EXCEPT !.fileNameRaw = fileNameRaw], t,
            PartMatched([matched |-> TRUE, name |-> fieldName,
                         hasFile |-> fileNameRaw # <<>>, filename |-> fileNameRaw],
                        data))

\* the file names clients give their parts
ClientNames ==
    {<<>>,
     ReportPdf,
     <<"report", ".PDF">>,
     <<"report", ".txt">>,
     <<"report", ".exe">>,
     <<"report">>,
     <<".pdf">>,
     <<"..">>,
     <<"dir", "/", "report", ".pdf">>,
     <<"report", ".pdf", "/">>,
     <<"/", "etc", "/", "passwd">>,
     <<"..", "/", "..", "/", "srv", "/", "public", "/", "report", ".txt">>,
     <<"..", "/", "dir", "/", "report", ".PDF">>}

\* the upload request whose body, one part, has arrived in one chunk
Collected(body) ==
    DataHandler(HandleUpload([IdleReq EXCEPT !.method = "POST", !.url = UploadUrl,
                                             !.ctype = CtMultipart, !.body = body,
                                             !.branch = "upload"]),
                body)

\* An upload on connection r, its body collected, comes at time t to its
\* part, whose disposition gave this field name and file name.
StoreFrom(r, fieldName, fileNameRaw, data) ==
    \E t \in now .. MaxClock :
        Finish(r, ValidateAndWrite(Collected(Body(<<Part(Disposition(fieldName, fileNameRaw),
                                                        data)>>)),
                                   fieldName, fileNameRaw, data, t), t)

StorePart(r) ==
    /\ ~crashed
    /\ req[r].phase = "idle"
    /\ \E fieldName \in FieldNames, fileNameRaw \in ClientNames :
          StoreFrom(r, fieldName, fileNameRaw, <<"%PDF">>)
    /\ UNCHANGED crashed

\* the same for the uploads of two clients that send files of the same names
UploadPart(r) ==
    /\ ~crashed
    /\ req[r].phase = "idle"
    /\ \E fileNameRaw \in {ReportPdf, <<"report", ".txt">>}, data \in {<<"%PDF">>, <<"x">>} :
          StoreFrom(r, <<"file">>, fileNameRaw, data)
    /\ UNCHANGED crashed

StoreNext == StorePart("r1") \/ Close("r1")

\* lines 101-121 of the end listener on their own, fed every field name and
\* file name
SpecStore == Init /\ [][StoreNext]_vars

\* the end listeners of the uploads on all connections, in any order
ConcurrentNext == \E r \in Reqs : UploadPart(r) \/ Close(r)

SpecConcurrent == Init /\ [][ConcurrentNext]_vars

\* the events of one connection
Step(r) ==
    \/ Request(r)
    \/ OnData(r)
    \/ OnEnd(r)
    \/ OnError(r)
    \/ ReadFileCallback(r)
    \/ Close(r)

\* one connection at a time: each request is over before the next arrives
Next == Step("r1")

Spec == Init /\ [][Next]_vars

----------------------------------------------------------------------------
(* Vocabulary of the properties *)

\* the handler has been entered for the request on connection r
Entered(r) == req[r].phase # "idle"

\* nothing more will happen for the request on connection r
Over(r) == req[r].phase \in {"done", "destroyed", "thrown"}

\* the one response of r has this status
Answered(r, statusCode) ==
    /\ Len(req[r].responses) = 1
    /\ req[r].responses[1].status = statusCode

\* some response of r has this status
Has(r, statusCode) ==
    \E i \in 1 .. Len(req[r].responses) : req[r].responses[i].status = statusCode

\* r is an upload whose end listener has run
Ended(r) == req[r].branch = "upload" /\ req[r].parsed

\* file names with an allowed extension, payloads within the limit
GoodNames == {ReportPdf, <<"report", ".PDF">>}

Payloads == {<<"%PDF">>, <<"BLK", "x">>, <<"BLK", "x", "x">>}

\* the bodies that hold one part, field "file", with a quoted file name of an
\* allowed extension, and are within the size limit
SingleFileUpload(body, name, data) ==
    /\ \E extra \in {<<>>, <<"CRLF", "CT">>} :
          body = Body(<<Part(Disposition(<<"file">>, name) \o extra, data)>>)
    /\ Bytes(body) <= MAX_UPLOAD_BYTES

\* a part as the specification reads it: a header block with a separator
\* after it, whose Content-Disposition names the field "file" and gives a
\* non-empty quoted file name
IsFileCandidate(part) ==
    \E i \in 1 .. Len(part) :
        /\ i + 7 <= Len(part)
        /\ SubSeq(part, i, i + 5) = <<"name=", "file", "Q", "SEMI", "file", "name=">>
        /\ part[i + 6] # "Q"
        /\ IndexOf(part, <<"CRLF", "CRLF">>, 1) > i + 6
        /\ \E c \in 1 .. i : part[c] = "CD"

\* the parts of the body r has collected
PartsOf(r) == parseMultipart(Concat(req[r].chunks), req[r].boundary)

----------------------------------------------------------------------------
(* Properties *)

\* C1: a POST /upload with a multipart content type and boundary, whose body
\* within the size limit holds a single part with field name "file" and a
\* quoted file name of an allowed extension, ends with exactly one file
\* written to the upload directory and a 200 response linking to
\* /uploads/<timestamp>-<basename>.
C1_UploadStoresAndLinks ==
    \A r \in Reqs : \A name \in GoodNames, data \in Payloads :
        (/\ Ended(r)
         /\ req[r].ctype = CtMultipart
         /\ SingleFileUpload(req[r].body, name, data))
        => /\ Answered(r, 200)
           /\ \E t \in 0 .. MaxClock :
                 /\ req[r].responses[1].body = Link(FinalName(t, name))
                 /\ req[r].wrote = {UPLOAD_DIR \o <<sep>> \o FinalName(t, name)}

\* C2: safeJoin returns null or a path that starts with root + separator and
\* lies under the root, for every raw URL path; a GET/HEAD request for which
\* it returns null is answered 403 and reads no file.
C2_SafeJoinNullOrInside ==
    \A r \in Reqs :
        (Entered(r) /\ req[r].branch \in {"uploads", "public"})
        => \/ /\ req[r].resolved.kind = "null"
              /\ Answered(r, 403)
              /\ req[r].reads = <<>>
           \/ /\ req[r].resolved.kind = "path"
              /\ StartsWith(req[r].resolved.path,
                            (IF req[r].branch = "uploads" THEN UPLOAD_DIR ELSE PUBLIC_DIR)
                            \o <<sep>>)
              /\ \A i \in 1 .. Len(req[r].resolved.path) :
                    req[r].resolved.path[i] # ".."

\* What safeJoin does keep: whenever it returns, it returns null (answered
\* 403, nothing read) or a path under the root.
SafeJoinContained ==
    \A r \in Reqs :
        (Entered(r) /\ req[r].branch \in {"uploads", "public"}
         /\ req[r].resolved.kind # "throw")
        => \/ /\ req[r].resolved.kind = "null"
              /\ Answered(r, 403)
              /\ req[r].reads = <<>>
           \/ /\ req[r].resolved.kind = "path"
              /\ StartsWith(req[r].resolved.path,
                            (IF req[r].branch = "uploads" THEN UPLOAD_DIR ELSE PUBLIC_DIR)
                            \o <<sep>>)
              /\ \A i \in 1 .. Len(req[r].resolved.path) :
                    req[r].resolved.path[i] # ".."

\* C3: round trip: an upload of a file with an allowed extension returns a
\* link, and a GET of that link resolves to the stored file and returns 200
\* with the bytes of the uploaded part body.
GetOf(url) == ReadFile(files, safeJoin(UPLOAD_DIR, Drop(url, 3)).path)

C4_SizeBoundary ==
    \A r \in Reqs :
        req[r].listening
        => /\ Has(r, 413) <=> Bytes(req[r].body) - Bytes(req[r].rest) > MAX_UPLOAD_BYTES
           /\ Has(r, 413) => Answered(r, 413) /\ ~req[r].parsed
           /\ (/\ Bytes(req[r].body) = MAX_UPLOAD_BYTES
               /\ Over(r)
               /\ ~Has(r, 500))
              => req[r].parsed /\ Concat(req[r].chunks) = req[r].body

C4_Witness ==
    \E r \in Reqs :
        /\ req[r].listening
        /\ Bytes(req[r].body) = MAX_UPLOAD_BYTES
        /\ Len(req[r].chunks) = 2
        /\ req[r].parsed
        /\ ~Has(r, 413)

\* C5: when the first file-candidate part has an extension outside the
\* allow-list the response is 415, the request writes no file, and the parts
\* after it are not examined even if one of them would be valid.
C5_DisallowedFirst ==
    \A r \in Reqs :
        (/\ Ended(r)
         /\ req[r].ctype = CtMultipart
         /\ req[r].body \in {Body(<<ExePart>>), Body(<<ExePart, PdfPart>>)})
        => Answered(r, 415) /\ req[r].wrote = {}

\* C6: a POST /upload whose Content-Type has no boundary parameter, or is not
\* multipart/form-data, is answered 400 before any listener is attached: no
\* byte of the body is consumed, nothing is parsed, no file is written.
NoBoundaryParam(contentType) ==
    ~\E i \in 1 .. (Len(contentType) - 1) : contentType[i] = "boundary="

NotMultipart(contentType) ==
    ~\E i \in 1 .. Len(contentType) : contentType[i] = "multipart/form-data"

C6_NoBoundaryNoRead ==
    \A r \in Reqs :
        (/\ Entered(r)
         /\ req[r].method = "POST" /\ req[r].url = UploadUrl
         /\ NoBoundaryParam(req[r].ctype) \/ NotMultipart(req[r].ctype))
        => /\ Answered(r, 400)
           /\ req[r].phase = "done"
           /\ ~req[r].listening
           /\ req[r].rest = req[r].body /\ req[r].chunks = <<>>
           /\ req[r].totalBytes = 0
           /\ ~req[r].parsed
           /\ req[r].wrote = {} /\ req[r].reads = <<>>

C6_Witness ==
    \E r \in Reqs :
        /\ req[r].method = "POST" /\ req[r].url = UploadUrl
        /\ req[r].ctype = <<"multipart/form-data">>
        /\ req[r].body = Body(<<PdfPart>>)
        /\ Answered(r, 400)

\* C7: routing takes exactly one branch per request, in this priority: POST
\* to exactly /upload is handled as an upload; otherwise a method other than
\* GET or HEAD gets 405 with no file system access; otherwise / or
\* /index.html serves the index document; otherwise a URL that starts with
\* /uploads/ is resolved against the upload root; otherwise the URL is
\* resolved against the public root.
ReadsUnder(r, baseDir) ==
    \A i \in 1 .. Len(req[r].reads) : StartsWith(req[r].reads[i], baseDir \o <<sep>>)

C7_RoutingPriority ==
    \A r \in Reqs :
        Entered(r)
        => IF req[r].method = "POST" /\ req[r].url = UploadUrl
           THEN /\ req[r].listening \/ Answered(r, 400)
                /\ ~Has(r, 405)
                /\ req[r].reads = <<>> /\ req[r].resolved = NoResult
           ELSE IF req[r].method \notin {"GET", "HEAD"}
           THEN /\ Answered(r, 405) /\ req[r].phase = "done"
                /\ ~req[r].listening
                /\ req[r].reads = <<>> /\ req[r].resolved = NoResult
                /\ req[r].wrote = {}
           ELSE IF req[r].url \in {<<"/">>, <<"/", "index.html">>}
           THEN /\ req[r].reads = <<PUBLIC_DIR \o <<sep, "index.html">>>>
                /\ ~req[r].listening /\ req[r].resolved = NoResult
           ELSE IF StartsWith(req[r].url, <<"/", "uploads", "/">>)
           THEN /\ req[r].resolved = safeJoin(UPLOAD_DIR, Drop(req[r].url, 3))
                /\ ~req[r].listening /\ ReadsUnder(r, UPLOAD_DIR)
           ELSE /\ req[r].resolved = safeJoin(PUBLIC_DIR, req[r].url)
                /\ ~req[r].listening /\ ReadsUnder(r, PUBLIC_DIR)

C7_Witness ==
    \E r \in Reqs :
        /\ req[r].method = "POST"
        /\ req[r].url = <<"/", "upload", "?", "q">>
        /\ Answered(r, 405)

\* C8: when a fully received upload body within the size limit holds no part
\* that is a file candidate, the response is 400 "No file uploaded" and no
\* file is written.
NoCandidateIn(parts) == \A i \in 1 .. Len(parts) : ~IsFileCandidate(parts[i])

C8_NoCandidateNoFile ==
    \A r \in Reqs :
        (Ended(r) /\ NoCandidateIn(PartsOf(r)))
        => /\ Answered(r, 400)
           /\ req[r].responses[1].body = <<"No file uploaded">>
           /\ req[r].wrote = {}

C8_Witness ==
    \E r \in Reqs :
        /\ Ended(r)
        /\ req[r].ctype = CtMultipart
        /\ req[r].body = Body(<<Part(Disposition(<<"file">>, <<>>), <<"x">>)>>)
        /\ Answered(r, 400)

\* C9: every request receives exactly one response, whatever the order of
\* its data, end and error events and whatever its URL: never none once the
\* handler is through with it, never two.
C9_ExactlyOneResponse ==
    \A r \in Reqs :
        /\ Len(req[r].responses) <= 1
        /\ Over(r) => Len(req[r].responses) = 1

\* What the handler does keep: no request is answered twice.
AtMostOneResponse == \A r \in Reqs : Len(req[r].responses) <= 1

\* C10: serveFile maps the outcome of the read to exactly one response:
\* ENOENT gives 404 with an HTML body containing "404", any other failure
\* gives 500 with the error code in the body, success gives 200 with the
\* bytes of the file.
C10_ServeFileOutcome ==
    \A r \in Reqs :
        (req[r].reads # <<>> /\ Over(r))
        => /\ Len(req[r].responses) = 1
           /\ req[r].readErr = "ENOENT"
              => /\ Answered(r, 404)
                 /\ req[r].responses[1].ctype = "text/html"
                 /\ req[r].responses[1].body = <<"<h1>404 - File Not Found</h1>">>
           /\ req[r].readErr \notin {"", "ENOENT"}
              => /\ Answered(r, 500)
                 /\ \E i \in 1 .. Len(req[r].responses[1].body) :
                       req[r].responses[1].body[i] = req[r].readErr
           /\ req[r].readErr = ""
              => /\ Answered(r, 200)
                 /\ req[r].responses[1].body = req[r].readContent
                 /\ req[r].readContent = files[req[r].filePath]

C10_Witness ==
    \E r \in Reqs :
        /\ Over(r)
        /\ req[r].readErr = "EACCES"
        /\ Answered(r, 500)

\* the header block of a part: what lies before its first empty line
HeaderOf(part) == SubSeq(part, 1, IndexOf(part, <<"CRLF", "CRLF">>, 1) - 1)

\* the one part of parts has the disposition  name="N"  and, unless F is
\* empty,  ; filename="F"  extracted from it as field name N and file name F,
\* and is taken for a file candidate exactly when N is "file" and F is there
ExtractsAs(parts, N, F) ==
    /\ Len(parts) = 1
    /\ DispositionMatch(HeaderOf(parts[1]))
          = [matched |-> TRUE, name |-> N, hasFile |-> F # <<>>, filename |-> F]
    /\ (PartStep(parts[1]).action # "continue") <=> (N = <<"file">> /\ F # <<>>)

FileNames == {<<>>, ReportPdf, <<"report", ".PDF">>, <<"report", ".exe">>}

\* C11: from a Content-Disposition line with a quoted name N and a quoted
\* file name F the pattern yields field name N and file name F, and without a
\* file name it yields N and no file name; a part is a file candidate exactly
\* when the extracted field name is "file" and a file name was extracted.
C11_HeaderExtraction ==
    \A r \in Reqs : \A N \in FieldNames, F \in FileNames :
        (/\ Ended(r)
         /\ req[r].ctype = CtMultipart
         /\ \E d \in {<<"x">>, <<"%PDF">>} :
               req[r].body = Body(<<Part(Disposition(N, F), d)>>))
        => ExtractsAs(PartsOf(r), N, F)

\* What the pattern does do when no file name is given: it yields the field
\* name and no file name.
ExtractsNameAlone ==
    \A r \in Reqs : \A N \in FieldNames :
        (/\ Ended(r)
         /\ req[r].ctype = CtMultipart
         /\ req[r].body = Body(<<Part(Disposition(N, <<>>), <<"x">>)>>))
        => ExtractsAs(PartsOf(r), N, <<>>)

\* the bytes of its body that request q has been handed in data events
Received(q) == Bytes(q.body) - Bytes(q.rest)

\* q was torn down by the guard: one response, 413, nothing parsed or written
TornDown(q) ==
    /\ q.phase = "destroyed"
    /\ Len(q.responses) = 1 /\ q.responses[1].status = 413
    /\ ~q.parsed
    /\ q.wrote = {}

\* one step of the server, seen from a request that is q before and q2 after
GuardStep(q, q2) ==
    /\ (q2.listening /\ Received(q2) > MAX_UPLOAD_BYTES) => TornDown(q2)
    /\ (q2.listening /\ Received(q2) <= MAX_UPLOAD_BYTES) => q2.phase # "destroyed"
    /\ (q.phase = "body" /\ q2.phase = "destroyed")
       => /\ Received(q) <= MAX_UPLOAD_BYTES
          /\ q2.chunks = q.chunks
    /\ q.phase = "destroyed" => q2 \in {q, IdleReq}

\* C12: the byte-count guard is evaluated on every data chunk: the request
\* is torn down with 413 at the first chunk at which the bytes received exceed
\* the limit, before the end of the body, and from then on no event of that
\* request parses anything or writes a file.
C12_GuardOnEveryChunk ==
    [][\A r \in Reqs : GuardStep(req[r], req'[r]) /\ (req[r].phase = "destroyed" => files' = files)]_vars

C12_Witness ==
    \E r \in Reqs :
        /\ TornDown(req[r])
        /\ req[r].rest # <<>>
        /\ Received(req[r]) > MAX_UPLOAD_BYTES

\* the URL path the handler hands safeJoin for request q, and the root
UrlPathOf(q) == IF q.branch = "uploads" THEN Drop(q.url, 3) ELSE q.url

RootOf(q) == IF q.branch = "uploads" THEN UPLOAD_DIR ELSE PUBLIC_DIR

\* nothing is left of a URL path once the query string, the fragment and the
\* leading slashes are stripped
RootExact(urlPath) ==
    StripLeadingSlashes(BeforeFirst(BeforeFirst(urlPath, "?"), "#")) = <<>>

\* C13: a URL path that is empty or all slashes after stripping the query
\* string, the fragment and the leading slashes resolves to the root
\* directory itself and passes the prefix check: safeJoin returns the root,
\* not the rejected value.
C13_RootExactPasses ==
    \A r \in Reqs :
        (/\ Entered(r)
         /\ req[r].branch \in {"uploads", "public"}
         /\ RootExact(UrlPathOf(req[r])))
        => req[r].resolved = [kind |-> "path", path |-> RootOf(req[r])]

\* What safeJoin does there: it rejects the root itself, and the request is
\* answered 403.
RootExactRejected ==
    \A r \in Reqs :
        (/\ Entered(r)
         /\ req[r].branch \in {"uploads", "public"}
         /\ RootExact(UrlPathOf(req[r])))
        => req[r].resolved.kind = "null" /\ Answered(r, 403)

\* the upload on r stored the part with this file name and payload, alone,
\* and answered with its link
StoredAlone(r, name, data) ==
    /\ Answered(r, 200)
    /\ \E t \in 0 .. MaxClock :
          /\ req[r].responses[1].body = Link(FinalName(t, name))
          /\ req[r].wrote = {UPLOAD_DIR \o <<sep>> \o FinalName(t, name)}
          /\ files[UPLOAD_DIR \o <<sep>> \o FinalName(t, name)] = data

\* C14: a part without header separator, without matching Content-Disposition,
\* with a field name other than "file" or without file name is skipped and
\* the scan goes on: a valid file-candidate part after such parts is
\* validated and stored as if it were the only part.
C14_SkipsToValidPart ==
    \A r \in Reqs :
        (/\ Ended(r)
         /\ req[r].ctype = CtMultipart
         /\ req[r].body = Body(<<FieldPart, PdfPart>>))
        => StoredAlone(r, ReportPdf, <<"%PDF">>)

\* C15: only the first valid file-candidate part is used: the scan stops at
\* it, the request writes one file at most, and the parts after it have no
\* influence on the stored name, the stored bytes or the response.
C15_FirstCandidateOnly ==
    \A r \in Reqs :
        /\ Cardinality(req[r].wrote) <= 1
        /\ (/\ Ended(r)
            /\ req[r].ctype = CtMultipart
            /\ req[r].body = Body(<<PdfPart, ExePart>>))
           => StoredAlone(r, ReportPdf, <<"%PDF">>)

\* What the loop does keep: no request writes more than one file.
AtMostOneFile == \A r \in Reqs : Cardinality(req[r].wrote) <= 1

\* c is the final path component of the file name raw: what stands between
\* its last separator, trailing ones apart, and its end
IsFinalComponent(c, raw) ==
    \E i \in 1 .. (Len(raw) + 1), j \in 0 .. Len(raw) :
        /\ c = SubSeq(raw, i, j)
        /\ \A k \in i .. j : raw[k] # sep
        /\ i = 1 \/ raw[i - 1] = sep
        /\ \A k \in (j + 1) .. Len(raw) : raw[k] = sep
        /\ j >= i \/ \A k \in 1 .. Len(raw) : raw[k] = sep

\* a file name made of a time stamp, a dash and the rest
Stamped(name, rest) ==
    \E t \in 0 .. MaxClock : name = <<ToString(t), "-">> \o rest

\* the extension of a file name, lower-cased, is in the allow-list
AllowedName(name) ==
    /\ Len(name) >= 4
    /\ <<LowerTok(name[Len(name)])>> \in ALLOWED_EXTENSIONS

\* C16: every file the server has written lies directly in the upload
\* directory, whatever directories, ".." or separators the client's file name
\* held, is named <timestamp>-<final path component of the client's file
\* name>, and has an extension that, lower-cased, is in the allow-list.
C16_StoredFileInvariant ==
    /\ \A f \in DOMAIN files \ DOMAIN InitFiles :
          /\ StartsWith(f, UPLOAD_DIR \o <<sep>>)
          /\ \A k \in (Len(UPLOAD_DIR) + 2) .. Len(f) : f[k] \notin {sep, ".."}
          /\ AllowedName(Drop(f, Len(UPLOAD_DIR) + 1))
    /\ \A r \in Reqs : \A f \in req[r].wrote :
          /\ f \in DOMAIN files
          /\ \E c \in {SubSeq(req[r].fileNameRaw, i, j) :
                          i \in 1 .. (Len(req[r].fileNameRaw) + 1),
                          j \in 0 .. Len(req[r].fileNameRaw)} :
                /\ IsFinalComponent(c, req[r].fileNameRaw)
                /\ Stamped(Drop(f, Len(UPLOAD_DIR) + 1), c)

C16_Witness ==
    \E r \in Reqs :
        /\ req[r].fileNameRaw = <<"..", "/", "dir", "/", "report", ".PDF">>
        /\ req[r].wrote = {UPLOAD_DIR \o <<sep, "1", "-", "report", ".PDF">>}
        /\ Answered(r, 200)

\* the bytes the end listener takes for the body of the first of parts
\* (data, line 96), which are the bytes it writes (line 111)
DataOf(parts) ==
    IF parts = <<>> THEN <<>>
    ELSE Drop(parts[1], IndexOf(parts[1], <<"CRLF", "CRLF">>, 1) + 1)

\* C17: the bytes written for an accepted part are exactly the bytes the
\* client placed between the part's empty line and the CRLF before the next
\* boundary delimiter, whatever they are: CR, LF, "--" and the boundary token
\* included.
C17_PartBodyVerbatim ==
    \A r \in Reqs : \A data \in {<<"%PDF">>, BinaryData, TokenData} :
        (/\ Ended(r)
         /\ req[r].ctype = CtMultipart
         /\ req[r].body = ReportUpload(data))
        => /\ Len(PartsOf(r)) = 1
           /\ IndexOf(PartsOf(r)[1], <<"CRLF", "CRLF">>, 1) # 0
           /\ DataOf(PartsOf(r)) = data

\* What the split does keep: a body without the boundary token in it, CR, LF
\* and "--" included, is cut out whole.
PlainBodyVerbatim ==
    \A r \in Reqs : \A data \in {<<"%PDF">>, BinaryData} :
        (/\ Ended(r)
         /\ req[r].ctype = CtMultipart
         /\ req[r].body = ReportUpload(data))
        => /\ Len(PartsOf(r)) = 1
           /\ DataOf(PartsOf(r)) = data

\* and the body with the boundary token in it is cut short at the token
TokenBodyCut ==
    \A r \in Reqs :
        (/\ Ended(r)
         /\ req[r].ctype = CtMultipart
         /\ req[r].body = ReportUpload(TokenData))
        => /\ Len(PartsOf(r)) = 1
           /\ DataOf(PartsOf(r)) = <<"x">>

PartLists ==
    {<<PdfPart>>, <<ExePart>>, <<FieldPart>>, <<FieldPart, PdfPart>>,
     <<ExePart, PdfPart>>, <<PdfPart, ExePart>>,
     <<Part(Disposition(<<"file">>, ReportPdf), BinaryData)>>}

\* parts is what the buffer of q, left as it was, is made of
ParsedAs(q, parts) ==
    /\ \A i \in 1 .. Len(parts) : parts[i] # <<>> /\ Bytes(parts[i]) > 0
    /\ Concat(q.chunks) = q.body
    /\ (q.boundary = <<"XYZ">> /\ \E ps \in PartLists : q.body = Body(ps))
       => q.body = Body(parts)
    /\ q.body = <<>> => parts = <<>>

============================================================================
